---- MODULE Spec2Model ----
(***************************************************************************)
(* A model of the executable-location and path-splitting code of           *)
(* wsutil/filesystem (init_progfile_dir and what it calls; the utilities   *)
(* find_last_pathname_separator, get_dirname, file_exists and              *)
(* files_identical) together with the glib replacements of this repository *)
(* (g_path_get_dirname, g_strlcat).  Spec is the specification of the      *)
(* start-up calls, LibSpec that of the utilities called on their own.      *)
(*                                                                         *)
(* A C string is a sequence of one-character strings; the terminating NUL  *)
(* is not stored, and reading the element at offset Len(s) yields NUL.     *)
(* A pointer into a string is a 0-based offset; NoPtr is the null pointer  *)
(* result of strchr/strrchr.  A char* that may be NULL is either a         *)
(* sequence of characters or the value NULL.                               *)
(***************************************************************************)
EXTENDS Integers, Sequences, FiniteSets, TLC

\* Longest generated invocation argument (the curated ones are longer).
MaxLen == 2

\* The null char*: a one-element sequence whose element is no character.
NULL == <<"NULL">>
\* The terminating '\0'.
NUL == "NUL"
\* A null result of strchr / strrchr (offsets are >= 0).
NoPtr == -1

Letters ==
  {"a","b","c","d","e","f","g","h","i","j","k","l","m","n","o","p","q","r",
   "s","t","u","v","w","x","y","z","A","B","C","D","E","F","G","H","I","J",
   "K","L","M","N","O","P","Q","R","S","T","U","V","W","X","Y","Z"}

\* Fault: only the lower-case letters are taken for letters.
g_ascii_isalpha_lower_only(c) ==
  c \in {"a","b","c","d","e","f","g","h","i","j","k","l","m","n","o","p","q",
         "r","s","t","u","v","w","x","y","z"}

\* isalpha() in the C locale.
g_ascii_isalpha(c) == c \in Letters

\* *(s + i) for 0 <= i <= strlen(s).
At(s, i) == IF i >= 0 /\ i < Len(s) THEN s[i + 1] ELSE NUL

\* The first n characters of s.
Prefix(s, n) == SubSeq(s, 1, n)

\* The string that starts at offset i of s.
Suffix(s, i) == SubSeq(s, i + 1, Len(s))

\* strchr(s + from, c) for a character c other than NUL, as an offset into s.
strchr_from(s, from, c) ==
  LET hits == {i \in from..(Len(s) - 1) : s[i + 1] = c}
  IN IF hits = {} THEN NoPtr ELSE CHOOSE i \in hits : \A j \in hits : i <= j

strchr(s, c) == strchr_from(s, 0, c)

\* strrchr(s, c) for a character c other than NUL.
strrchr(s, c) ==
  LET hits == {i \in 0..(Len(s) - 1) : s[i + 1] = c}
  IN IF hits = {} THEN NoPtr ELSE CHOOSE i \in hits : \A j \in hits : i >= j

(***************************************************************************)
(* glib replacements                                                       *)
(***************************************************************************)

\* glib.h defines G_OS_WIN32 unconditionally, so G_DIR_SEPARATOR is '\\'.
G_DIR_SEPARATOR == "\\"

G_IS_DIR_SEPARATOR(c) == c = G_DIR_SEPARATOR

\* Fault: the copy loop fills the last byte too, leaving none for the nul.
RECURSIVE strlcat_copy_filling(_, _, _, _)
strlcat_copy_filling(d, src, i, bytes_left) ==
  IF At(src, i) = NUL THEN d
  ELSE IF bytes_left # 0
       THEN strlcat_copy_filling(Append(d, src[i + 1]), src, i + 1,
                                 bytes_left - 1)
       ELSE strlcat_copy_filling(d, src, i + 1, bytes_left)

\* g_strlcat's copy loop: append the characters of src from offset i on to d
\* while more than one byte is left.
RECURSIVE strlcat_copy(_, _, _, _)
strlcat_copy(d, src, i, bytes_left) ==
  IF At(src, i) = NUL THEN d
  ELSE IF bytes_left # 1
       THEN strlcat_copy(Append(d, src[i + 1]), src, i + 1, bytes_left - 1)
       ELSE strlcat_copy(d, src, i + 1, bytes_left)

\* g_strlcat(dest, src, dest_size): the string dest holds afterwards, the
\* returned size and the offsets into dest that were written (the copied
\* characters and the final nul).  A dest with no nul among its first
\* dest_size characters is a string of at least dest_size characters.
g_strlcat(dest, src, dest_size) ==
  IF dest = NULL \/ src = NULL
  THEN [dest |-> dest, ret |-> 0, written |-> {}]
  ELSE
  LET dlength == IF Len(dest) <= dest_size THEN Len(dest) ELSE dest_size
      bytes_left == dest_size - dlength
      d == strlcat_copy(dest, src, 0, bytes_left)
  IN IF bytes_left = 0
     THEN [dest |-> dest, ret |-> dlength + Len(src), written |-> {}]
     ELSE [dest |-> d, ret |-> dlength + Len(src),
           written |-> dlength..Len(d)]

\* Fault: the forward scan does not stop at a separator.
skip_component_to_end(f, p) == IF p < Len(f) THEN Len(f) ELSE p

\* The "while (*p && !G_IS_DIR_SEPARATOR(*p)) p++" scans of g_path_get_dirname.
RECURSIVE skip_component(_, _)
skip_component(f, p) ==
  IF At(f, p) # NUL /\ ~G_IS_DIR_SEPARATOR(At(f, p))
  THEN skip_component(f, p + 1) ELSE p

\* "while (base > file_name && G_IS_DIR_SEPARATOR(*base)) base--".
RECURSIVE skip_separators_back(_, _)
skip_separators_back(f, base) ==
  IF base > 0 /\ G_IS_DIR_SEPARATOR(At(f, base))
  THEN skip_separators_back(f, base - 1) ELSE base

\* g_path_get_dirname as this repository compiles it (the G_OS_WIN32 blocks
\* are included).
g_path_get_dirname(file_name) ==
  IF file_name = NULL THEN NULL
  ELSE
  LET b0 == strrchr(file_name, G_DIR_SEPARATOR)
      q == strrchr(file_name, "/")
      b1 == IF b0 = NoPtr \/ (q # NoPtr /\ q > b0) THEN q ELSE b0
  IN IF b1 = NoPtr
     THEN IF g_ascii_isalpha(At(file_name, 0)) /\ At(file_name, 1) = ":"
          THEN <<file_name[1], ":", ".">>
          ELSE <<".">>
     ELSE
     LET base == skip_separators_back(file_name, b1)
     IN IF base = 1 /\ g_ascii_isalpha(At(file_name, 0)) /\ At(file_name, 1) = ":"
        THEN Prefix(file_name, 1 + (base + 1))
        ELSE IF /\ G_IS_DIR_SEPARATOR(At(file_name, 0))
                /\ G_IS_DIR_SEPARATOR(At(file_name, 1))
                /\ At(file_name, 2) # NUL
                /\ ~G_IS_DIR_SEPARATOR(At(file_name, 2))
                /\ base >= 2
        THEN LET p == skip_component(file_name, 2)
             IN IF p = base + 1
                THEN file_name \o <<G_DIR_SEPARATOR>>
                ELSE IF G_IS_DIR_SEPARATOR(At(file_name, p))
                        /\ skip_component(file_name, p + 1) = base + 1
                     THEN Prefix(file_name, 1 + (base + 1))
                     ELSE Prefix(file_name, 1 + base)
        ELSE Prefix(file_name, 1 + base)

(***************************************************************************)
(* The environment of the process and the state of the module              *)
(***************************************************************************)

VARIABLES
  env,                              \* what the OS and the file system answer
  progfile_dir,                     \* static char *progfile_dir
  appbundle_dir,                    \* static char *appbundle_dir (__APPLE__)
  running_in_build_directory_flag,  \* static gboolean, initially FALSE
  call,                             \* the last call made and what it returned
  aborted                           \* the process was ended abnormally

vars == <<env, progfile_dir, appbundle_dir, running_in_build_directory_flag,
          call, aborted>>

\* Path names of the modelled file systems.
P_app == <<"a","p","p">>
P_b_run_app == <<"/","b","/","r","u","n","/","a","p","p">>
P_x_app == <<"/","x","/","a","p","p">>
P_rs_app == <<"r","/","s","/","a","p","p">>
P_bin_app == <<"b","i","n","/","a","p","p">>
P_opt_app_bin_app ==
  <<"/","o","p","t","/","a","p","p","/","b","i","n","/","a","p","p">>
P_bundle_app ==
  <<"/","B","/","C","o","n","t","e","n","t","s","/","M","/","a","p","p">>
P_b_CMakeCache ==
  <<"/","b","/","C","M","a","k","e","C","a","c","h","e",".","t","x","t">>
P_partial_app == <<"/","B","/","C","o","n","/","M","/","a","p","p">>
P_win_app == <<"C",":","\\","a","\\","x">>
P_win_bare == <<"x">>

\* The current directory getcwd() reports.
Curdir == <<"/","w">>

\* A path name of a file system: what is there (kind, "none": nothing),
\* the outcome of stat() on it (the kind, or the errno of the failure) and
\* whether access(path, X_OK) succeeds.
File(kind, st, x) == [kind |-> kind, st |-> st, x |-> x]

\* All strings over the characters cs of length at most n.
RECURSIVE Strings(_, _)
Strings(cs, n) ==
  IF n = 0 THEN {<< >>}
  ELSE LET shorter == Strings(cs, n - 1)
       IN shorter \cup {Append(s, c) : s \in shorter, c \in cs}

\* The invocation arguments a caller passes.
Arg0s ==
  {P_opt_app_bin_app, P_app, P_bin_app, P_b_run_app, P_partial_app}
    \cup Strings({"/", "a"}, MaxLen)

\* The file systems, PATH values and current-directory outcomes a run
\* meets: PATH (NULL: not set), whether pathconf() and getcwd() succeed, and
\* the files.
FS_none == << >>
FS_build ==
  [p \in {P_b_run_app, P_x_app, P_b_CMakeCache} |->
     IF p = P_b_CMakeCache THEN File("reg", "reg", FALSE)
     ELSE File("reg", "reg", TRUE)]
\* /b cannot be searched: stat() and access() below it fail with EACCES,
\* and there is no CMakeCache.txt in it.
FS_denied ==
  [p \in {P_b_run_app, P_b_CMakeCache} |->
     IF p = P_b_CMakeCache THEN File("none", "EACCES", FALSE)
     ELSE File("reg", "EACCES", FALSE)]
FS_plain ==
  [p \in {P_b_run_app, P_x_app, P_rs_app, P_app} |-> File("reg", "reg", TRUE)]

PATH_x_brun == <<"/","x",":","/","b","/","r","u","n">>
PATH_rs_x == <<"r","/","s",":",":","/","x",":">>

System(PATH, cwd_status, fs) ==
  [PATH |-> PATH, cwd_status |-> cwd_status, fs |-> fs]

Systems ==
  { System(NULL, "ok", FS_none),
    System(<< >>, "ok", FS_build),
    System(PATH_x_brun, "ok", FS_build),
    System(PATH_x_brun, "ok", FS_denied),
    System(PATH_rs_x, "ok", FS_plain),
    System(PATH_x_brun, "pathconf", FS_none),
    System(PATH_rs_x, "getcwd", FS_build) }

\* What the platform's self-location mechanism reports (NULL: nothing).
ExecPaths(platform) ==
  IF platform = "unix" THEN {NULL, P_app, P_b_run_app}
  ELSE IF platform = "apple" THEN {NULL, P_app, P_bundle_app}
  ELSE {NULL, P_win_app, P_win_bare}

PosixEnvs ==
  { [platform |-> pl, privs |-> pr, build_env |-> be, exec_path |-> ep,
     PATH |-> sy.PATH, cwd_status |-> sy.cwd_status, fs |-> sy.fs,
     last_error |-> "ERROR_SUCCESS", format_ok |-> TRUE] :
      <<pl, ep>> \in {<<q, x>> \in {"unix", "apple"} \X
                        (ExecPaths("unix") \cup ExecPaths("apple")) :
                        x \in ExecPaths(q)},
      pr \in BOOLEAN, be \in BOOLEAN, sy \in Systems }

Win32Envs ==
  [platform : {"win32"},
   privs : BOOLEAN,
   build_env : {FALSE},
   exec_path : ExecPaths("win32"),
   PATH : {NULL},
   cwd_status : {"ok"},
   fs : {FS_none},
   last_error : {"ERROR_SUCCESS", "ERROR_INSUFFICIENT_BUFFER", "ERROR_OTHER"},
   format_ok : BOOLEAN]

Envs == PosixEnvs \cup Win32Envs

\* started_with_special_privs() of wsutil/privileges.
started_with_special_privs(e) == e.privs

\* stat(path): the kind of the file, or the errno of the failure.
ws_stat64(path, e) == IF path \in DOMAIN e.fs THEN e.fs[path].st ELSE "ENOENT"

StatErrnos == {"ENOENT", "EACCES", "ENOTDIR"}

\* access(path, X_OK) == 0
access_X_OK(path, e) == path \in DOMAIN e.fs /\ e.fs[path].x

file_exists(fname, e) ==
  IF fname = NULL THEN FALSE
  ELSE IF ws_stat64(fname, e) \in StatErrnos /\ ws_stat64(fname, e) = "ENOENT"
       THEN FALSE
       ELSE TRUE

(***************************************************************************)
(* init_progfile_dir                                                       *)
(***************************************************************************)

\* The strings init_progfile_dir returns on failure (g_strdup_printf of the
\* format with its arguments; the text of a format is kept in one piece).
Msg_pathconf == <<"pathconf failed: ", "strerror(errno)", "\n">>
Msg_getcwd == <<"getcwd failed: ", "strerror(errno)", "\n">>
Msg_not_found(execname, pathstr) ==
  <<"\"">> \o execname \o <<"\" not found in \"">> \o pathstr \o <<"\"">>
Msg_PATH_not_set == <<"PATH isn't set">>
Msg_no_slash(prog_pathname) ==
  <<"No / found in \"">> \o prog_pathname \o <<"\"">>
Msg_no_backslash(prog_pathname) ==
  <<"No \\ in executable pathname \"">> \o prog_pathname \o <<"\"">>
Msg_module_format_failed(error) ==
  <<"GetModuleFileName failed: ", error,
    " (FormatMessage failed: ", "GetLastError()", ")">>
Msg_module_failed(error) ==
  <<"GetModuleFileName failed: ", "FormatMessage(error)", " (", error, ")">>

\* The state of the module as a record.
State ==
  [progfile_dir |-> progfile_dir,
   appbundle_dir |-> appbundle_dir,
   running_in_build_directory_flag |-> running_in_build_directory_flag]

\* get_executable_path(): what the platform's mechanism reports, NULL when
\* there is none or it fails.
get_executable_path(e) == e.exec_path

\* Fault: the fallback to argv[0] is left out.
Execname_without_fallback(arg0, e) == get_executable_path(e)

\* Fault: argv[0] is preferred to the platform's mechanism.
Execname_from_arg0(arg0, e) == arg0

\* execname = get_executable_path(); if (execname == NULL) execname = arg0;
Execname(arg0, e) ==
  IF get_executable_path(e) = NULL THEN arg0 ELSE get_executable_path(e)

\* Fault: the environment override is honoured with special privileges.
EnvOverride_unchecked(e, s) ==
  IF e.build_env THEN TRUE ELSE s.running_in_build_directory_flag

\* The flag after the WIRESHARK_RUN_FROM_BUILD_DIRECTORY check.
EnvOverride(e, s) ==
  IF e.build_env /\ ~started_with_special_privs(e)
  THEN TRUE ELSE s.running_in_build_directory_flag

\* Fault: an entry is taken to end after its first character.
PathEnd_after_one_character(pathstr, path_start) == path_start + 1

\* path_end for the entry that begins at path_start: the next ':', or the
\* end of the string.
PathEnd(pathstr, path_start) ==
  LET colon == strchr_from(pathstr, path_start, ":")
  IN IF colon = NoPtr THEN Len(pathstr) ELSE colon

\* "if (*path_end == ':') path_end++; path_start = path_end;"
PathAdvance(pathstr, path_end) ==
  IF At(pathstr, path_end) = ":" THEN path_end + 1 ELSE path_end

\* Fault: the '/' between the entry and the name is left out.
PathCandidate_without_separator(pathstr, path_start, path_end, execname) ==
  SubSeq(pathstr, path_start + 1, path_end) \o execname

\* The candidate the PATH loop builds for the entry
\* pathstr[path_start .. path_end).
PathCandidate(pathstr, path_start, path_end, execname) ==
  LET path_component_len == path_end - path_start
      path_len == path_component_len + 1 + Len(execname) + 1
      path == SubSeq(pathstr, path_start + 1, path_end)
  IN g_strlcat(g_strlcat(path, <<"/">>, path_len).dest, execname, path_len).dest

\* Fault: the loop does not stop at the first match, the last match wins.
RECURSIVE PathSearch_last_match(_, _, _, _, _)
PathSearch_last_match(pathstr, path_start, execname, e, tested) ==
  IF At(pathstr, path_start) = NUL
  THEN [prog_pathname |-> NULL, tested |-> tested]
  ELSE LET path_end == PathEnd(pathstr, path_start)
           path == PathCandidate(pathstr, path_start, path_end, execname)
           rest == PathSearch_last_match(pathstr,
                                         PathAdvance(pathstr, path_end),
                                         execname, e, Append(tested, path))
       IN IF access_X_OK(path, e) /\ rest.prog_pathname = NULL
          THEN [prog_pathname |-> path, tested |-> rest.tested]
          ELSE rest

\* The PATH loop from path_start on: the path found (or NULL) and the
\* candidates handed to access(), in order.
RECURSIVE PathSearch(_, _, _, _, _)
PathSearch(pathstr, path_start, execname, e, tested) ==
  IF At(pathstr, path_start) = NUL
  THEN [prog_pathname |-> NULL, tested |-> tested]
  ELSE LET path_end == PathEnd(pathstr, path_start)
           path == PathCandidate(pathstr, path_start, path_end, execname)
       IN IF access_X_OK(path, e)
          THEN [prog_pathname |-> path, tested |-> Append(tested, path)]
          ELSE PathSearch(pathstr, PathAdvance(pathstr, path_end),
                          execname, e, Append(tested, path))

\* Fault: an empty PATH is taken for an unset one.
PathIsSet_and_not_empty(pathstr) == pathstr # NULL /\ pathstr # << >>

\* if (path_start != NULL): PATH is set, possibly to the empty string.
PathIsSet(pathstr) == pathstr # NULL

\* An absolute path is used as it is.
AbsoluteCandidate(execname) ==
  [prog_pathname |-> execname, ret |-> NULL, tested |-> << >>, queried |-> {}]

\* Fault: the result of getcwd() is not tested.
RelativeCandidate_unchecked_getcwd(execname, e) ==
  IF e.cwd_status = "pathconf"
  THEN [prog_pathname |-> NULL, ret |-> Msg_pathconf,
        tested |-> << >>, queried |-> {"pathconf"}]
  ELSE [prog_pathname |-> Curdir \o <<"/">> \o execname, ret |-> NULL,
        tested |-> << >>, queried |-> {"pathconf", "getcwd"}]

\* A relative path with a directory in it is combined with the current
\* directory.
RelativeCandidate(execname, e) ==
  IF e.cwd_status = "pathconf"
  THEN [prog_pathname |-> NULL, ret |-> Msg_pathconf,
        tested |-> << >>, queried |-> {"pathconf"}]
  ELSE IF e.cwd_status = "getcwd"
  THEN [prog_pathname |-> NULL, ret |-> Msg_getcwd,
        tested |-> << >>, queried |-> {"pathconf", "getcwd"}]
  ELSE [prog_pathname |-> Curdir \o <<"/">> \o execname, ret |-> NULL,
        tested |-> << >>, queried |-> {"pathconf", "getcwd"}]

\* A file name is searched for in PATH.
BareCandidate(execname, e) ==
  IF PathIsSet(e.PATH)
  THEN LET found == PathSearch(e.PATH, 0, execname, e, << >>)
       IN [prog_pathname |-> found.prog_pathname,
           ret |-> IF found.prog_pathname = NULL
                   THEN Msg_not_found(execname, e.PATH) ELSE NULL,
           tested |-> found.tested, queried |-> {"PATH"}]
  ELSE [prog_pathname |-> NULL, ret |-> Msg_PATH_not_set,
        tested |-> << >>, queried |-> {"PATH"}]

\* Fault: the test for an absolute path is left out.
Absolutize_without_absolute(execname, e) ==
  IF strchr(execname, "/") # NoPtr THEN RelativeCandidate(execname, e)
  ELSE BareCandidate(execname, e)

\* The absolutizing step: the program's pathname, or the error returned
\* (ret is NULL when the function goes on), with the candidates handed to
\* access() and the OS queries made.
Absolutize(execname, e) ==
  IF At(execname, 0) = "/" THEN AbsoluteCandidate(execname)
  ELSE IF strchr(execname, "/") # NoPtr THEN RelativeCandidate(execname, e)
  ELSE BareCandidate(execname, e)

\* "/run" and "/Contents", "/CMakeCache.txt"
S_run == <<"/","r","u","n">>
S_Contents == <<"/","C","o","n","t","e","n","t","s">>
S_CMakeCache == <<"/","C","M","a","k","e","C","a","c","h","e",".","t","x","t">>

\* The flag after the CMake output directory check on the directory dir,
\* whose last '/' is at dir_end.
CMakeCheck(dir, dir_end, e, flag) ==
  IF Suffix(dir, dir_end) = S_run
  THEN IF file_exists(Prefix(dir, dir_end) \o S_CMakeCache, e)
       THEN TRUE ELSE flag
  ELSE flag

\* strncmp(s + p, "/Contents", n) == 0 for p + n <= strlen(s), n > 0
strncmp_Contents(s, p, n) ==
  /\ n <= Len(S_Contents)
  /\ SubSeq(s, p + 1, p + n) = Prefix(S_Contents, n)

\* "while (p >= prog_pathname && *p != '/') p--"
RECURSIVE scan_back(_, _)
scan_back(s, p) == IF p >= 0 /\ At(s, p) # "/" THEN scan_back(s, p - 1) ELSE p

\* The __APPLE__ scan for a "Contents" component, from the cursor p with
\* the end of the component at component_end.  "undefined": the cursor has
\* left the string and strncmp reads before its first character.
RECURSIVE BundleScan(_, _, _)
BundleScan(s, p0, component_end) ==
  LET p == scan_back(s, p0)
  IN IF p = 0 THEN [kind |-> "none", dir |-> NULL]
     ELSE IF p < 0 THEN [kind |-> "undefined", dir |-> NULL]
     ELSE IF strncmp_Contents(s, p, component_end - p)
     THEN [kind |-> "found", dir |-> Prefix(s, p)]
     ELSE BundleScan(s, p - 1, p)

\* Fault: a failing call clears progfile_dir.
Failed_clearing(retstr, s, flag) ==
  [ret |-> retstr,
   progfile_dir |-> NULL,
   appbundle_dir |-> s.appbundle_dir,
   running_in_build_directory_flag |-> flag,
   undefined |-> FALSE]

\* Fault: a failing call takes back the environment override.
Failed_restoring_flag(retstr, s, flag) ==
  [ret |-> retstr,
   progfile_dir |-> s.progfile_dir,
   appbundle_dir |-> s.appbundle_dir,
   running_in_build_directory_flag |-> s.running_in_build_directory_flag,
   undefined |-> FALSE]

\* A return of an error message: nothing is stored in progfile_dir.
Failed(retstr, s, flag) ==
  [ret |-> retstr,
   progfile_dir |-> s.progfile_dir,
   appbundle_dir |-> s.appbundle_dir,
   running_in_build_directory_flag |-> flag,
   undefined |-> FALSE]

\* Fault: the terminator is written after the separator.
StripLastComponent_keeping_separator(prog_pathname, dir_end) ==
  Prefix(prog_pathname, dir_end + 1)

\* "*dir_end = '\0'": prog_pathname without its last component.
StripLastComponent(prog_pathname, dir_end) == Prefix(prog_pathname, dir_end)

\* The splitting step and what follows it.
SplitDirectory(prog_pathname, e, s, flag) ==
  LET dir_end == strrchr(prog_pathname, "/")
  IN IF dir_end = NoPtr
     THEN Failed(Msg_no_slash(prog_pathname), s, flag)
     ELSE
     LET dir == StripLastComponent(prog_pathname, dir_end)
         dir_end2 == strrchr(dir, "/")
         checks == dir_end2 # NoPtr /\ ~started_with_special_privs(e)
         bundle == IF checks /\ e.platform = "apple"
                   THEN BundleScan(dir, Len(dir), Len(dir))
                   ELSE [kind |-> "none", dir |-> NULL]
     IN [ret |-> NULL,
         progfile_dir |-> dir,
         appbundle_dir |->
           IF bundle.kind = "found" THEN bundle.dir ELSE s.appbundle_dir,
         running_in_build_directory_flag |->
           IF checks THEN CMakeCheck(dir, dir_end2, e, flag) ELSE flag,
         undefined |-> bundle.kind = "undefined"]

\* init_progfile_dir on UN*X.
InitPosix(arg0, e, s) ==
  LET flag == EnvOverride(e, s)
      execname == Execname(arg0, e)
      abs == Absolutize(execname, e)
      hist == [arg0 |-> arg0, execname |-> execname,
               prog_pathname |-> abs.prog_pathname,
               tested |-> abs.tested, queried |-> abs.queried]
  IN IF abs.ret # NULL
     THEN [hist |-> hist] @@ Failed(abs.ret, s, flag)
     ELSE [hist |-> hist] @@ SplitDirectory(abs.prog_pathname, e, s, flag)

\* GetModuleFileName(...) != 0 && GetLastError() != ERROR_INSUFFICIENT_BUFFER
GetModuleFileName_ok(e) ==
  e.exec_path # NULL /\ e.last_error # "ERROR_INSUFFICIENT_BUFFER"

\* init_progfile_dir on Windows (arg0 is unused).
InitWin32(arg0, e, s) ==
  LET flag == s.running_in_build_directory_flag
      nohist == [arg0 |-> arg0, execname |-> NULL, prog_pathname |-> NULL,
                 tested |-> << >>, queried |-> {}]
  IN IF GetModuleFileName_ok(e)
     THEN LET prog_pathname == e.exec_path
              dir == g_path_get_dirname(prog_pathname)
              hist == [nohist EXCEPT !.execname = prog_pathname,
                                     !.prog_pathname = prog_pathname]
              stored == [progfile_dir |-> dir,
                         appbundle_dir |-> s.appbundle_dir,
                         running_in_build_directory_flag |-> flag,
                         undefined |-> FALSE]
          IN IF dir # NULL
             THEN [hist |-> hist, ret |-> NULL] @@ stored
             ELSE [hist |-> hist, ret |-> Msg_no_backslash(prog_pathname)]
                    @@ stored
     ELSE IF ~e.format_ok
     THEN [hist |-> nohist]
            @@ Failed(Msg_module_format_failed(e.last_error), s, flag)
     ELSE [hist |-> nohist]
            @@ Failed(Msg_module_failed(e.last_error), s, flag)

\* What a call init_progfile_dir(arg0) does in the environment e to the
\* module state s.
InitResult(arg0, e, s) ==
  IF e.platform = "win32" THEN InitWin32(arg0, e, s) ELSE InitPosix(arg0, e, s)

(***************************************************************************)
(* The operations                                                          *)
(***************************************************************************)

\* Before any call.  op names the function called; ret is the char* it
\* returned, flag the gboolean.
NoCall ==
  [op |-> "none", returned |-> FALSE, ret |-> NULL, flag |-> FALSE,
   arg0 |-> NULL, execname |-> NULL, prog_pathname |-> NULL,
   tested |-> << >>, queried |-> {}]

\* What a scan that has left its string may have copied to appbundle_dir.
Garbage == <<"?">>

Init ==
  /\ env \in Envs
  /\ progfile_dir = NULL
  /\ appbundle_dir = NULL
  /\ running_in_build_directory_flag = FALSE
  /\ call = NoCall
  /\ aborted = FALSE

\* char *init_progfile_dir(const char *arg0).  When the bundle scan runs
\* off the front of its string the behaviour is undefined: the process is
\* ended, or the scan matches bytes that precede the string.
init_progfile_dir(arg0) ==
  /\ ~aborted
  /\ \E r \in {InitResult(arg0, env, State)} :
       LET done == [op |-> "init_progfile_dir", returned |-> TRUE,
                    ret |-> r.ret, flag |-> FALSE] @@ r.hist
       IN \/ /\ ~r.undefined
             /\ progfile_dir' = r.progfile_dir
             /\ appbundle_dir' = r.appbundle_dir
             /\ running_in_build_directory_flag' =
                  r.running_in_build_directory_flag
             /\ call' = done
             /\ aborted' = FALSE
          \/ /\ r.undefined
             /\ progfile_dir' = progfile_dir
             /\ appbundle_dir' = appbundle_dir
             /\ running_in_build_directory_flag' =
                  r.running_in_build_directory_flag
             /\ call' = [done EXCEPT !.returned = FALSE]
             /\ aborted' = TRUE
          \/ /\ r.undefined
             /\ progfile_dir' = r.progfile_dir
             /\ appbundle_dir' = Garbage
             /\ running_in_build_directory_flag' =
                  r.running_in_build_directory_flag
             /\ call' = done
             /\ aborted' = FALSE
  /\ UNCHANGED env

\* const char *get_progfile_dir(void)
get_progfile_dir ==
  /\ ~aborted
  /\ call' = [NoCall EXCEPT !.op = "get_progfile_dir", !.returned = TRUE,
                            !.ret = progfile_dir]
  /\ UNCHANGED <<env, progfile_dir, appbundle_dir,
                 running_in_build_directory_flag, aborted>>

\* Fault: the accessor sets the flag it is to report.
running_in_build_directory_setting ==
  /\ ~aborted
  /\ call' = [NoCall EXCEPT !.op = "running_in_build_directory",
                            !.returned = TRUE, !.flag = TRUE]
  /\ running_in_build_directory_flag' = TRUE
  /\ UNCHANGED <<env, progfile_dir, appbundle_dir, aborted>>

\* gboolean running_in_build_directory(void)
running_in_build_directory ==
  /\ ~aborted
  /\ call' = [NoCall EXCEPT !.op = "running_in_build_directory",
                            !.returned = TRUE,
                            !.flag = running_in_build_directory_flag]
  /\ UNCHANGED <<env, progfile_dir, appbundle_dir,
                 running_in_build_directory_flag, aborted>>

Next ==
  \/ \E arg0 \in Arg0s : init_progfile_dir(arg0)
  \/ get_progfile_dir
  \/ running_in_build_directory

Spec == Init /\ [][Next]_vars

(***************************************************************************)
(* The path and file utilities, called on their own                        *)
(***************************************************************************)

\* File names the utilities are given.
BS == <<"\\">>
N_usr == <<"u","s","r">>
N_bin == <<"b","i","n">>
N_test == <<"t","e","s","t">>
N_server == <<"s","e","r","v","e","r">>
N_share == <<"s","h","a","r","e">>
N_foo == <<"f","o","o">>
N_bar == <<"b","a","r">>
N_nofile == <<"n","o","f","i","l","e">>
P_root == <<"/">>
P_usr_bin == <<"/">> \o N_usr \o <<"/">> \o N_bin
P_usr_bin_test == P_usr_bin \o <<"/">> \o N_test
W_drive_root == <<"X", ":", "\\">>
W_drive_child == W_drive_root \o N_foo
W_drive_relative == <<"X", ":">> \o N_foo
W_share == BS \o BS \o N_server \o BS \o N_share
W_share_root == W_share \o BS
W_share_child == W_share_root \o N_foo
W_share_grandchild == W_share_child \o BS \o N_bar

PathChars == {"/", "\\", ":", "X"}

\* Every name of at most MaxLen characters, the names of the documentation,
\* and names below a drive root and below a share.
FileNames ==
  {P_root, P_usr_bin, P_usr_bin_test, N_nofile, W_drive_root, W_drive_child,
   W_drive_relative, W_share, W_share_root, W_share_child, W_share_grandchild}
    \cup Strings(PathChars, MaxLen)
    \cup {r \o t : r \in {W_drive_root, W_share}, t \in Strings({"\\", "f"}, MaxLen)}

\* Fault: a forward scan, which finds the first separator.
find_last_pathname_separator_first(path, e) ==
  IF e.platform = "win32"
  THEN LET hits == {i \in 0..(Len(path) - 1) : path[i + 1] \in {"\\", "/"}}
       IN IF hits # {} THEN CHOOSE i \in hits : \A j \in hits : i <= j
          ELSE strchr(path, ":")
  ELSE strchr(path, "/")

\* "while (separator > path) { c = *--separator; if (c == '\\' || c == '/')
\* return separator; }": the offset found, NoPtr when the loop ends.
RECURSIVE scan_separator_back(_, _)
scan_separator_back(path, separator) ==
  IF separator > 0
  THEN IF At(path, separator - 1) = "\\" \/ At(path, separator - 1) = "/"
       THEN separator - 1
       ELSE scan_separator_back(path, separator - 1)
  ELSE NoPtr

\* char *find_last_pathname_separator(const char *path), for a path that is
\* a string.
find_last_pathname_separator(path, e) ==
  IF e.platform = "win32"
  THEN LET separator == scan_separator_back(path, Len(path))
       IN IF separator # NoPtr THEN separator ELSE strchr(path, ":")
  ELSE strrchr(path, "/")

\* Fault: "." is returned for a name without a directory.
get_dirname_dot(path, e) ==
  LET separator == find_last_pathname_separator(path, e)
  IN IF separator = NoPtr
     THEN [ret |-> <<".">>, path |-> path]
     ELSE [ret |-> Prefix(path, separator), path |-> Prefix(path, separator)]

\* char *get_dirname(char *path), for a path that is a string: what is
\* returned and the string the caller's buffer holds afterwards.
get_dirname(path, e) ==
  LET separator == find_last_pathname_separator(path, e)
  IN IF separator = NoPtr
     THEN [ret |-> NULL, path |-> path]
     ELSE [ret |-> Prefix(path, separator), path |-> Prefix(path, separator)]

\* The files of the file systems the utilities are tried on: what the file
\* is (kind), what stat() on its name yields (the kind, or the errno of the
\* failure), and its device and inode numbers.
LibFile(kind, st, dev, ino) ==
  [kind |-> kind, st |-> st, x |-> FALSE, dev |-> dev, ino |-> ino]

F_dir == <<"/","d">>
F_file == <<"/","d","/","f">>
F_under_file == <<"/","d","/","f","/","x">>
F_fifo == <<"/","p">>
F_link == <<"/","l">>
F_absent == <<"/","n">>
F_hidden == <<"/","h","/","f">>
F_hidden_absent == <<"/","h","/","n">>
F_relative == <<"g">>
F_cwd_relative == <<"/","w","/","g">>
F_long == <<"/","l","o","n","g">>

\* F_link is a second name of F_file; F_hidden exists in a directory that
\* may not be searched, F_hidden_absent does not; F_under_file names
\* something below a regular file.
LibFS_links ==
  (F_dir :> LibFile("dir", "dir", 1, 2)) @@
  (F_file :> LibFile("reg", "reg", 1, 10)) @@
  (F_under_file :> LibFile("none", "ENOTDIR", 0, 0)) @@
  (F_fifo :> LibFile("fifo", "fifo", 1, 11)) @@
  (F_link :> LibFile("reg", "reg", 1, 10)) @@
  (F_hidden :> LibFile("reg", "EACCES", 1, 12)) @@
  (F_hidden_absent :> LibFile("none", "EACCES", 0, 0)) @@
  (F_relative :> LibFile("reg", "reg", 1, 13)) @@
  (F_cwd_relative :> LibFile("reg", "reg", 1, 13)) @@
  (F_long :> LibFile("reg", "reg", 1, 14))

\* F_link is another file, with the inode number of F_file on another
\* device.
LibFS_mounts ==
  (F_link :> LibFile("reg", "reg", 2, 10)) @@ LibFS_links

LibFiles == DOMAIN LibFS_links \cup {F_absent, << >>}

\* The processes the utilities run in: the platform the code is built for,
\* the files, and the names _fullpath() cannot resolve into its buffer.
LibEnvs ==
  [platform : {"unix", "win32"},
   fs : {LibFS_links, LibFS_mounts},
   fullpath_null : {{F_long}}]

\* A name with every '/' replaced by '\\'.
Backslashed(name) ==
  [i \in 1..Len(name) |-> IF name[i] = "/" THEN "\\" ELSE name[i]]

\* _fullpath(full, fname, MAX_PATH): the absolute name on the current drive
\* C: with the current directory \w, NULL when it does not fit.
fullpath(fname, e) ==
  IF fname \in e.fullpath_null THEN NULL
  ELSE IF At(fname, 0) = "/" \/ At(fname, 0) = "\\"
       THEN <<"C", ":">> \o Backslashed(fname)
       ELSE <<"C", ":", "\\", "w", "\\">> \o Backslashed(fname)

\* Fault: the outcomes of stat() and of _fullpath() are not looked at, and
\* what the buffers hold is compared.
files_identical_unchecked(fname1, fname2, e) ==
  IF e.platform = "win32"
  THEN fullpath(fname1, e) = fullpath(fname2, e)
  ELSE /\ fname1 \in DOMAIN e.fs
       /\ fname2 \in DOMAIN e.fs
       /\ e.fs[fname1].dev = e.fs[fname2].dev
       /\ e.fs[fname1].ino = e.fs[fname2].ino

\* gboolean files_identical(const char *fname1, const char *fname2)
files_identical(fname1, fname2, e) ==
  IF e.platform = "win32"
  THEN IF fullpath(fname1, e) = NULL THEN FALSE
       ELSE IF fullpath(fname2, e) = NULL THEN FALSE
       ELSE fullpath(fname1, e) = fullpath(fname2, e)
  ELSE IF ws_stat64(fname1, e) \in StatErrnos THEN FALSE
       ELSE IF ws_stat64(fname2, e) \in StatErrnos THEN FALSE
       ELSE /\ e.fs[fname1].dev = e.fs[fname2].dev
            /\ e.fs[fname1].ino = e.fs[fname2].ino

\* Fault: a failed stat is taken for a file that is no directory.
test_for_directory_ignoring_errno(path, e) ==
  IF ws_stat64(path, e) = "dir" THEN "EISDIR" ELSE "0"

\* int test_for_directory(const char *path): the int returned, by name.
test_for_directory(path, e) ==
  IF ws_stat64(path, e) \in StatErrnos THEN ws_stat64(path, e)
  ELSE IF ws_stat64(path, e) = "dir" THEN "EISDIR"
  ELSE "0"

\* int test_for_fifo(const char *path)
test_for_fifo(path, e) ==
  IF ws_stat64(path, e) \in StatErrnos THEN ws_stat64(path, e)
  ELSE IF ws_stat64(path, e) = "fifo" THEN "ESPIPE"
  ELSE "0"

\* Before any call of a utility.  op names the function called, path and
\* path2 its arguments; ret is the char* it returned, separator the offset
\* of the char* into path it returned, buffer the string the caller's
\* buffer holds afterwards, flag the gboolean it returned, result the int,
\* size the gsize; dest_size and written belong to g_strlcat.
NoLibCall ==
  [op |-> "none", returned |-> FALSE, path |-> NULL, path2 |-> NULL,
   ret |-> NULL, separator |-> NoPtr, buffer |-> NULL, flag |-> FALSE,
   result |-> "0", dest_size |-> 0, size |-> 0, written |-> {}]

\* The utilities are called after init_progfile_dir has stored a directory.
LibInit ==
  /\ env \in LibEnvs
  /\ progfile_dir = P_usr_bin
  /\ running_in_build_directory_flag = TRUE
  /\ appbundle_dir = NULL
  /\ call = NoLibCall
  /\ aborted = FALSE

LibReturn(op, path) ==
  [NoLibCall EXCEPT !.op = op, !.returned = TRUE, !.path = path]

\* gchar *g_path_get_dirname(const gchar *file_name)
call_g_path_get_dirname(file_name) ==
  /\ ~aborted
  /\ call' = [LibReturn("g_path_get_dirname", file_name) EXCEPT
                !.ret = g_path_get_dirname(file_name)]
  /\ UNCHANGED <<env, progfile_dir, appbundle_dir,
                 running_in_build_directory_flag, aborted>>

\* char *find_last_pathname_separator(const char *path).  A null path is
\* handed to strchr()/strrchr(), which read through it: the behaviour is
\* undefined, the process is ended or some pointer comes back.
call_find_last_pathname_separator(path) ==
  /\ ~aborted
  /\ \/ /\ path # NULL
        /\ call' = [LibReturn("find_last_pathname_separator", path) EXCEPT
                      !.separator = find_last_pathname_separator(path, env)]
        /\ aborted' = FALSE
     \/ /\ path = NULL
        /\ call' = [LibReturn("find_last_pathname_separator", path) EXCEPT
                      !.returned = FALSE]
        /\ aborted' = TRUE
     \/ /\ path = NULL
        /\ \E wild \in {NoPtr, 0} :
             call' = [LibReturn("find_last_pathname_separator", path) EXCEPT
                        !.separator = wild]
        /\ aborted' = FALSE
  /\ UNCHANGED <<env, progfile_dir, appbundle_dir,
                 running_in_build_directory_flag>>

\* char *get_dirname(char *path).  g_assert(path != NULL) ends the process
\* with exit(1) for a null path.
call_get_dirname(path) ==
  /\ ~aborted
  /\ \/ /\ path # NULL
        /\ call' = [LibReturn("get_dirname", path) EXCEPT
                      !.ret = get_dirname(path, env).ret,
                      !.buffer = get_dirname(path, env).path]
        /\ aborted' = FALSE
     \/ /\ path = NULL
        /\ call' = [LibReturn("get_dirname", path) EXCEPT !.returned = FALSE]
        /\ aborted' = TRUE
  /\ UNCHANGED <<env, progfile_dir, appbundle_dir,
                 running_in_build_directory_flag>>

\* gboolean file_exists(const char *fname)
call_file_exists(fname) ==
  /\ ~aborted
  /\ call' = [LibReturn("file_exists", fname) EXCEPT
                !.flag = file_exists(fname, env)]
  /\ UNCHANGED <<env, progfile_dir, appbundle_dir,
                 running_in_build_directory_flag, aborted>>

\* gboolean files_identical(const char *fname1, const char *fname2)
call_files_identical(fname1, fname2) ==
  /\ ~aborted
  /\ call' = [LibReturn("files_identical", fname1) EXCEPT
                !.path2 = fname2,
                !.flag = files_identical(fname1, fname2, env)]
  /\ UNCHANGED <<env, progfile_dir, appbundle_dir,
                 running_in_build_directory_flag, aborted>>

\* int test_for_directory(const char *path)
call_test_for_directory(path) ==
  /\ ~aborted
  /\ call' = [LibReturn("test_for_directory", path) EXCEPT
                !.result = test_for_directory(path, env)]
  /\ UNCHANGED <<env, progfile_dir, appbundle_dir,
                 running_in_build_directory_flag, aborted>>

\* int test_for_fifo(const char *path)
call_test_for_fifo(path) ==
  /\ ~aborted
  /\ call' = [LibReturn("test_for_fifo", path) EXCEPT
                !.result = test_for_fifo(path, env)]
  /\ UNCHANGED <<env, progfile_dir, appbundle_dir,
                 running_in_build_directory_flag, aborted>>

\* What g_strlcat is given: a destination, a source and the size of the
\* destination buffer.
StrlcatDests == {NULL} \cup Strings({"d"}, MaxLen)

StrlcatSources == {NULL, <<"/">>, N_foo} \cup Strings({"s"}, MaxLen)

StrlcatSizes == 0..(2 * MaxLen + 1)

\* gsize g_strlcat(gchar *dest, const gchar *src, gsize dest_size)
call_g_strlcat(dest, src, dest_size) ==
  /\ ~aborted
  /\ call' = [LibReturn("g_strlcat", dest) EXCEPT
                !.path2 = src,
                !.dest_size = dest_size,
                !.buffer = g_strlcat(dest, src, dest_size).dest,
                !.size = g_strlcat(dest, src, dest_size).ret,
                !.written = g_strlcat(dest, src, dest_size).written]
  /\ UNCHANGED <<env, progfile_dir, appbundle_dir,
                 running_in_build_directory_flag, aborted>>

LibNext ==
  \/ \E file_name \in FileNames \cup {NULL} :
       call_g_path_get_dirname(file_name)
  \/ \E path \in FileNames \cup {NULL} :
       call_find_last_pathname_separator(path)
  \/ \E path \in FileNames \cup {NULL} : call_get_dirname(path)
  \/ \E fname \in LibFiles \cup {NULL} : call_file_exists(fname)
  \/ \E fname1 \in LibFiles, fname2 \in LibFiles :
       call_files_identical(fname1, fname2)
  \/ \E path \in LibFiles : call_test_for_directory(path)
  \/ \E path \in LibFiles : call_test_for_fifo(path)
  \/ \E dest \in StrlcatDests, src \in StrlcatSources,
          dest_size \in StrlcatSizes : call_g_strlcat(dest, src, dest_size)

LibSpec == LibInit /\ [][LibNext]_vars

(***************************************************************************)
(* Properties                                                              *)
(***************************************************************************)

Posix == env.platform # "win32"

\* The last operation was a call of init_progfile_dir that returned.
InitReturned == call.op = "init_progfile_dir" /\ call.returned

\* The step is a call of init_progfile_dir that returns.
InitStep == call'.op = "init_progfile_dir" /\ call'.returned

HasSlash(s) == \E i \in 1..Len(s) : s[i] = "/"

\* The entries of a PATH value: the pieces between the colons, a piece that
\* would begin at the very end of the value excluded.
EntryStarts(pathstr) ==
  {i \in 0..(Len(pathstr) - 1) : i = 0 \/ pathstr[i] = ":"}

EntryAt(pathstr, i) ==
  LET ends == {j \in i..Len(pathstr) : j = Len(pathstr) \/ pathstr[j + 1] = ":"}
      end == CHOOSE j \in ends : \A k \in ends : j <= k
  IN SubSeq(pathstr, i + 1, end)

\* entry + "/" + name for the entries of pathstr, from left to right.
RECURSIVE CandidatesFrom(_, _, _)
CandidatesFrom(pathstr, name, starts) ==
  IF starts = {} THEN << >>
  ELSE LET i == CHOOSE x \in starts : \A y \in starts : x <= y
       IN <<EntryAt(pathstr, i) \o <<"/">> \o name>>
            \o CandidatesFrom(pathstr, name, starts \ {i})

Candidates(pathstr, name) ==
  CandidatesFrom(pathstr, name, EntryStarts(pathstr))

\* C1: init_progfile_dir returns NULL exactly when it has stored a
\* directory in progfile_dir during the call; a call that returns an error
\* message leaves progfile_dir as it was, so progfile_dir is NULL until a
\* call has succeeded.
C1_NullIffStored ==
  [][/\ InitStep =>
          /\ call'.ret = NULL => progfile_dir' # NULL
          /\ call'.ret # NULL => progfile_dir' = progfile_dir
     /\ progfile_dir' # progfile_dir =>
          InitStep /\ call'.ret = NULL]_vars

\* A call has failed after an earlier one had stored a directory.
C1_Witness ==
  /\ InitReturned
  /\ call.ret # NULL
  /\ progfile_dir # NULL

\* The platform's mechanism has yielded no path.
PrimaryFailed ==
  IF Posix THEN get_executable_path(env) = NULL ELSE ~GetModuleFileName_ok(env)

\* C2 as stated: whenever the platform's mechanism yields nothing, argv[0]
\* is the candidate and the failure of the mechanism is not returned as an
\* error.
C2_AsStated ==
  (InitReturned /\ PrimaryFailed) =>
     /\ call.execname = call.arg0
     /\ call.ret \notin {Msg_module_failed(env.last_error),
                         Msg_module_format_failed(env.last_error)}

\* C2, amended: on UN*X, when get_executable_path() yields NULL, argv[0] is
\* the candidate and an error returned is one of the absolutizing or
\* splitting step about argv[0]; on Windows, a failure of GetModuleFileName
\* is returned as a "GetModuleFileName failed" message.
C2_Fallback ==
  (InitReturned /\ PrimaryFailed) =>
     IF Posix
     THEN /\ call.execname = call.arg0
          /\ call.ret \in
               {NULL, Msg_pathconf, Msg_getcwd, Msg_PATH_not_set,
                Msg_not_found(call.arg0, env.PATH),
                Msg_no_slash(call.prog_pathname)}
     ELSE call.ret \in {Msg_module_failed(env.last_error),
                        Msg_module_format_failed(env.last_error)}

\* get_executable_path() gave nothing and the call succeeded on argv[0].
C2_Witness ==
  /\ InitReturned
  /\ Posix
  /\ PrimaryFailed
  /\ call.ret = NULL
  /\ call.arg0 = P_bin_app

\* What a caller can observe of a call.
Outcome(r) ==
  <<r.ret, r.progfile_dir, r.running_in_build_directory_flag, r.undefined>>

\* C3: when the platform's mechanism returns a path, calls that differ only
\* in argv[0] return the same value and leave the same progfile_dir and
\* build-directory flag.
C3_Arg0Irrelevant ==
  (IF Posix THEN get_executable_path(env) # NULL ELSE GetModuleFileName_ok(env))
    => \E o \in {Outcome(InitResult(P_app, env, State))} :
         \A a \in Arg0s : Outcome(InitResult(a, env, State)) = o

\* A call with a bare argv[0] succeeded on the path the mechanism reported.
C3_Witness ==
  /\ InitReturned
  /\ get_executable_path(env) = P_b_run_app
  /\ call.arg0 = P_app
  /\ call.ret = NULL
  /\ progfile_dir = Prefix(P_b_run_app, 6)

\* C4: with special privileges no call of init_progfile_dir sets the
\* build-directory flag, neither by the environment override nor by the
\* "run" plus CMakeCache.txt check, and appbundle_dir stays unset.
C4_PrivilegedUnaffected ==
  started_with_special_privs(env) =>
     /\ running_in_build_directory_flag = FALSE
     /\ appbundle_dir = NULL

\* A privileged call with the override set has resolved a "run" directory
\* beside a CMakeCache.txt.
C4_Witness ==
  /\ InitReturned
  /\ started_with_special_privs(env)
  /\ env.build_env
  /\ call.ret = NULL
  /\ progfile_dir = Prefix(P_b_run_app, 6)
  /\ file_exists(P_b_CMakeCache, env)

\* C5 as stated: once a call has succeeded, no operation changes
\* progfile_dir, appbundle_dir or the build-directory flag.
C5_AsStated ==
  [][progfile_dir # NULL =>
       /\ progfile_dir' = progfile_dir
       /\ appbundle_dir' = appbundle_dir
       /\ running_in_build_directory_flag' =
            running_in_build_directory_flag]_vars

\* C5, amended: once a call has succeeded, get_progfile_dir and
\* running_in_build_directory change none of progfile_dir, appbundle_dir
\* and the flag, and progfile_dir changes only in a further call of
\* init_progfile_dir that succeeds.
C5_OnlyInitWrites ==
  [][progfile_dir # NULL =>
       /\ call'.op \in {"get_progfile_dir", "running_in_build_directory"} =>
            /\ progfile_dir' = progfile_dir
            /\ appbundle_dir' = appbundle_dir
            /\ running_in_build_directory_flag' =
                 running_in_build_directory_flag
       /\ progfile_dir' # progfile_dir =>
            InitStep /\ call'.ret = NULL]_vars

\* An accessor was called after a successful initialization.
C5_Witness ==
  /\ call.op = "running_in_build_directory"
  /\ progfile_dir # NULL
  /\ call.flag = FALSE

\* s contains a separator of the platform: '/', on Windows also '\'.
HasSeparator(s) ==
  \E i \in 1..Len(s) : s[i] = "/" \/ (~Posix /\ s[i] = "\\")

\* C6: whenever the path handed to the splitting step contains no
\* separator, init_progfile_dir returns an error message and does not
\* succeed with a directory derived from that path.
C6_NoSeparatorFails ==
  (InitReturned /\ call.prog_pathname # NULL
     /\ ~HasSeparator(call.prog_pathname))
    => call.ret # NULL

\* The last call searched PATH for a bare name.
BareSearch ==
  /\ InitReturned
  /\ Posix
  /\ ~HasSlash(call.execname)
  /\ env.PATH # NULL

\* C7: for a bare name the candidates entry + "/" + name are handed to
\* access() in the order of the entries of PATH, none before the last one
\* tested is executable, the search succeeds exactly on an executable
\* candidate, which becomes the program's pathname, and fails only after
\* every entry has been tested.
C7_LeftmostMatch ==
  BareSearch =>
    LET cands == Candidates(env.PATH, call.execname)
        n == Len(call.tested)
    IN /\ n <= Len(cands)
       /\ \A i \in 1..n : call.tested[i] = cands[i]
       /\ \A i \in 1..(n - 1) : ~access_X_OK(cands[i], env)
       /\ call.ret = NULL =>
            /\ n >= 1
            /\ access_X_OK(cands[n], env)
            /\ call.prog_pathname = cands[n]
       /\ call.ret # NULL =>
            /\ n = Len(cands)
            /\ \A i \in 1..n : ~access_X_OK(cands[i], env)

\* The search stopped at a match although an entry to its right matches
\* too.
C7_Witness ==
  /\ BareSearch
  /\ call.ret = NULL
  /\ LET cands == Candidates(env.PATH, call.execname)
     IN /\ Len(call.tested) < Len(cands)
        /\ access_X_OK(cands[Len(cands)], env)

\* C8: for a bare name, init_progfile_dir returns "PATH isn't set" when
\* PATH is absent and '"name" not found in "PATH"' when PATH is set, the
\* empty string included, and no entry matches; the two messages differ and
\* in both cases progfile_dir is left as it was.
C8_PathErrors ==
  [][(InitStep /\ Posix /\ ~HasSlash(call'.execname)) =>
       /\ env.PATH = NULL =>
            /\ call'.ret = Msg_PATH_not_set
            /\ progfile_dir' = progfile_dir
       /\ (/\ env.PATH # NULL
           /\ \A i \in 1..Len(Candidates(env.PATH, call'.execname)) :
                ~access_X_OK(Candidates(env.PATH, call'.execname)[i], env)) =>
            /\ call'.ret = Msg_not_found(call'.execname, env.PATH)
            /\ call'.ret # Msg_PATH_not_set
            /\ progfile_dir' = progfile_dir]_vars

\* A bare name was looked up in a PATH set to the empty string.
C8_Witness ==
  /\ BareSearch
  /\ env.PATH = << >>
  /\ call.execname = P_app
  /\ call.ret = Msg_not_found(P_app, << >>)

\* The outcomes of the current-directory query.
CwdStatuses == {"ok", "pathconf", "getcwd"}

\* C9: a candidate that begins with '/' is used as it is, without a query
\* of the current directory or of PATH, and the outcome of the call is the
\* same whether or not pathconf() or getcwd() would fail.
C9_AbsoluteAsIs ==
  /\ (InitReturned /\ Posix /\ At(call.execname, 0) = "/") =>
       /\ call.queried = {}
       /\ call.prog_pathname = call.execname
  /\ Posix =>
       \A a \in Arg0s : At(Execname(a, env), 0) = "/" =>
         \A cs \in CwdStatuses :
           InitResult(a, [env EXCEPT !.cwd_status = cs], State)
             = InitResult(a, env, State)

\* An absolute argv[0] was resolved while getcwd() would have failed.
C9_Witness ==
  /\ InitReturned
  /\ Posix
  /\ get_executable_path(env) = NULL
  /\ call.arg0 = P_opt_app_bin_app
  /\ env.cwd_status = "getcwd"
  /\ call.ret = NULL

\* No CMakeCache.txt exists and the environment override is not set.
NoBuildMarkers ==
  /\ ~env.build_env
  /\ \A p \in DOMAIN env.fs :
       Len(p) < Len(S_CMakeCache)
         \/ Suffix(p, Len(p) - Len(S_CMakeCache)) # S_CMakeCache

\* C10: a call with an absolute candidate d + "/" + leaf, the leaf without
\* '/', succeeds and stores d; with no mechanism and no build markers,
\* init_progfile_dir("/opt/app/bin/app") makes get_progfile_dir() return
\* "/opt/app/bin" and running_in_build_directory() return FALSE.
C10_AbsoluteSplit ==
  /\ (InitReturned /\ Posix /\ At(call.execname, 0) = "/") =>
       /\ call.ret = NULL
       /\ \E n \in 0..(Len(call.execname) - 1) :
            /\ progfile_dir = Prefix(call.execname, n)
            /\ call.execname[n + 1] = "/"
            /\ ~HasSlash(Suffix(call.execname, n + 1))
  /\ (InitReturned /\ Posix /\ get_executable_path(env) = NULL
        /\ call.arg0 = P_opt_app_bin_app) =>
       progfile_dir = Prefix(P_opt_app_bin_app, 12)
  /\ NoBuildMarkers => running_in_build_directory_flag = FALSE
  /\ call.op = "get_progfile_dir" => call.ret = progfile_dir
  /\ call.op = "running_in_build_directory" =>
       call.flag = running_in_build_directory_flag

\* get_progfile_dir() has returned "/opt/app/bin" where there is no
\* mechanism and there are no build markers.
C10_Witness ==
  /\ call.op = "get_progfile_dir"
  /\ call.ret = Prefix(P_opt_app_bin_app, 12)
  /\ Posix
  /\ get_executable_path(env) = NULL
  /\ NoBuildMarkers
  /\ running_in_build_directory_flag = FALSE

(***************************************************************************)
(* Properties of the utilities (under LibSpec)                             *)
(***************************************************************************)

\* The last operation was a call of g_path_get_dirname.
DirnameCall == call.op = "g_path_get_dirname" /\ call.returned

\* s begins with the characters of r.
StartsWith(s, r) == Len(s) >= Len(r) /\ Prefix(s, Len(r)) = r

\* s contains '/' or '\\'.
HasDirSeparator(s) == \E i \in 1..Len(s) : s[i] = "/" \/ s[i] = "\\"

\* C11: g_path_get_dirname returns the directory components of a file name
\* without the final separator and the leaf, keeping a bare root: for
\* "/usr/bin/test" it returns "/usr/bin", and for "/" it returns "/".
C11_DocumentedDirnames ==
  DirnameCall =>
    /\ call.path = P_usr_bin_test => call.ret = P_usr_bin
    /\ call.path = P_root => call.ret = P_root

\* C12: on Windows-style paths g_path_get_dirname never truncates away the
\* drive or share root: "X:\foo" and "X:\" give "X:\"; "\\server\share"
\* gives "\\server\share\"; "\\server\share\foo" gives "\\server\share\";
\* "\\server\share\foo\bar" gives "\\server\share\foo"; and whatever follows
\* a drive root or a share name, the result begins with the drive root,
\* respectively with the share name and more.
C12_WindowsRoots ==
  DirnameCall =>
    /\ call.path \in {W_drive_child, W_drive_root} => call.ret = W_drive_root
    /\ call.path \in {W_share, W_share_child} => call.ret = W_share_root
    /\ call.path = W_share_grandchild => call.ret = W_share_child
    /\ \A t \in Strings({"\\", "f"}, MaxLen) :
         /\ call.path = W_drive_root \o t => StartsWith(call.ret, W_drive_root)
         /\ call.path = W_share \o t =>
              StartsWith(call.ret, W_share) /\ Len(call.ret) > Len(W_share)

C12_Witness ==
  DirnameCall /\ call.path = W_share /\ call.ret = W_share_root

\* C13: for every non-NULL file name without a separator g_path_get_dirname
\* returns ".", except that a name starting with a letter followed by ':'
\* yields that letter followed by ":."; it returns NULL only for a NULL
\* argument.
C13_NoSeparator ==
  DirnameCall =>
    /\ call.ret = NULL <=> call.path = NULL
    /\ call.path # NULL /\ ~HasDirSeparator(call.path) =>
         call.ret = IF /\ Len(call.path) >= 2
                       /\ call.path[1] \in Letters
                       /\ call.path[2] = ":"
                    THEN <<call.path[1], ":", ".">>
                    ELSE <<".">>

C13_Witness ==
  DirnameCall /\ call.path = W_drive_relative /\ call.ret = <<"X", ":", ".">>

\* The last operation was a call of get_dirname that returned.
GetDirnameCall == call.op = "get_dirname" /\ call.returned

\* The offsets of the characters of cs in s.
Offsets(s, cs) == {i \in 0..(Len(s) - 1) : s[i + 1] \in cs}

Greatest(offsets) == CHOOSE i \in offsets : \A j \in offsets : i >= j

Least(offsets) == CHOOSE i \in offsets : \A j \in offsets : i <= j

\* Where the directory of a pathname ends: at its last '/' on UN*X; on
\* Windows at its last '\\' or '/', without both at its drive colon;
\* NoPtr when there is no such character.
Boundary(s, platform) ==
  IF platform = "win32"
  THEN IF Offsets(s, {"\\", "/"}) # {} THEN Greatest(Offsets(s, {"\\", "/"}))
       ELSE IF Offsets(s, {":"}) # {} THEN Least(Offsets(s, {":"}))
       ELSE NoPtr
  ELSE IF Offsets(s, {"/"}) # {} THEN Greatest(Offsets(s, {"/"})) ELSE NoPtr

\* C14: get_dirname returns NULL, not ".", when the pathname contains no
\* separator (on Windows: and no drive colon) and then leaves the buffer
\* alone; otherwise it returns the pathname truncated to the characters
\* before the last separator, the separator excluded, and that is what the
\* caller's buffer then holds.
C14_StrictDirname ==
  GetDirnameCall =>
    IF Boundary(call.path, env.platform) = NoPtr
    THEN call.ret = NULL /\ call.ret # <<".">> /\ call.buffer = call.path
    ELSE /\ call.ret = Prefix(call.path, Boundary(call.path, env.platform))
         /\ call.buffer = call.ret

C14_Witness ==
  /\ GetDirnameCall
  /\ call.path = N_nofile
  /\ call.ret = NULL
  /\ call.buffer = N_nofile

\* C15: the directory of a bare root separator is the root itself and never
\* the empty string: get_dirname("/") returns "/", and get_dirname never
\* returns an empty string for a path whose only separator is its first
\* character.
C15_RootKept ==
  GetDirnameCall /\ Offsets(call.path, {"/"}) = {0} =>
    /\ call.ret # << >>
    /\ call.path = P_root => call.ret = P_root

\* The last operation was a call of find_last_pathname_separator that
\* returned.
SeparatorCall == call.op = "find_last_pathname_separator" /\ call.returned

\* C16: find_last_pathname_separator returns the position of the last
\* separator of the pathname (none occurs after it), or NULL if there is
\* none; the separator is '/' on POSIX, '\\' or '/' on Windows, and when
\* neither occurs on Windows the position of the drive colon is returned.
C16_LastSeparator ==
  SeparatorCall /\ call.path # NULL =>
    LET separators == IF env.platform = "win32" THEN {"\\", "/"} ELSE {"/"}
        found == Offsets(call.path, separators)
        colons == Offsets(call.path, {":"})
    IN IF found # {}
       THEN /\ call.separator \in found
            /\ \A i \in found : i <= call.separator
       ELSE IF env.platform = "win32" /\ colons # {}
            THEN call.separator \in colons /\ call.separator = Least(colons)
            ELSE call.separator = NoPtr

C16_Witness ==
  /\ SeparatorCall
  /\ env.platform = "win32"
  /\ call.path = W_drive_relative
  /\ call.separator = 1

\* C17: find_last_pathname_separator has no error condition: for an empty
\* string and for a null pathname it returns NULL without failing.
C17_NoErrorCondition ==
  call.op = "find_last_pathname_separator" /\ call.path \in {NULL, << >>} =>
    call.returned /\ ~aborted /\ call.separator = NoPtr

\* The last operation was a call of file_exists that returned.
FileExistsCall == call.op = "file_exists" /\ call.returned

\* What the file of that name is; "none" when there is no such file.
Kind(fname, e) == IF fname \in DOMAIN e.fs THEN e.fs[fname].kind ELSE "none"

\* stat() on the name fails.
StatFails(fname, e) == ws_stat64(fname, e) \in StatErrnos

\* C18: file_exists treats a failed stat like an absent file: whenever stat
\* of the path fails, for any errno, file_exists returns FALSE; it never
\* aborts.
C18_StatFailureIsFalse ==
  /\ FileExistsCall /\ call.path # NULL /\ StatFails(call.path, env) =>
       call.flag = FALSE
  /\ call.op = "file_exists" => call.returned /\ ~aborted

\* C19: file_exists returns FALSE for a nonexistent path and for a null or
\* empty path, and TRUE for an existing regular file, directory or fifo.
C19_ExistsIffPresent ==
  FileExistsCall =>
    /\ call.path \in {NULL, << >>} => call.flag = FALSE
    /\ call.path # NULL /\ Kind(call.path, env) = "none" => call.flag = FALSE
    /\ call.path # NULL /\ Kind(call.path, env) \in {"reg", "dir", "fifo"} =>
         call.flag = TRUE

\* The last operation was a call of files_identical that returned.
FilesIdenticalCall == call.op = "files_identical" /\ call.returned

\* What files_identical asks about a name cannot be obtained: stat() fails
\* on UN*X, _fullpath() returns NULL on Windows.
NoInformation(fname, e) ==
  IF e.platform = "win32" THEN fname \in e.fullpath_null
  ELSE StatFails(fname, e)

\* C20, as stated: files_identical(a, a) is TRUE for every existing path a,
\* and files_identical is FALSE whenever information about either file
\* cannot be obtained.
C20_AsStated ==
  FilesIdenticalCall =>
    /\ call.path = call.path2 /\ Kind(call.path, env) # "none" =>
         call.flag = TRUE
    /\ NoInformation(call.path, env) \/ NoInformation(call.path2, env) =>
         call.flag = FALSE

\* C20, amended: files_identical(a, a) is TRUE for every path a about which
\* the information it compares can be obtained, and files_identical is FALSE
\* whenever that information cannot be obtained for either file.
C20_IdenticalToItself ==
  FilesIdenticalCall =>
    /\ call.path = call.path2 /\ ~NoInformation(call.path, env) =>
         call.flag = TRUE
    /\ NoInformation(call.path, env) \/ NoInformation(call.path2, env) =>
         call.flag = FALSE

C20_Witness ==
  /\ FilesIdenticalCall
  /\ env.platform = "unix"
  /\ call.path = F_file
  /\ call.path2 = F_file
  /\ call.flag = TRUE

\* The step is a call of test_for_directory, respectively test_for_fifo.
DirectoryTest == call'.op = "test_for_directory"

FifoTest == call'.op = "test_for_fifo"

\* What stat() on the name yields: the errno of its failure, by name, or
\* "ok".
StatErrno(fname, e) ==
  IF fname \notin DOMAIN e.fs THEN "ENOENT"
  ELSE IF e.fs[fname].st \in {"EACCES", "ENOTDIR", "ENOENT"} THEN e.fs[fname].st
  ELSE "ok"

\* C21: test_for_directory returns the errno of the failed stat when stat
\* fails, EISDIR when stat succeeds on a directory and 0 when it succeeds on
\* something else; test_for_fifo returns in the same way the errno, ESPIPE
\* for a FIFO and 0 otherwise; neither changes any module state.
C21_StatKinds ==
  [][/\ DirectoryTest =>
          /\ call'.returned
          /\ call'.result =
               IF StatErrno(call'.path, env) # "ok"
               THEN StatErrno(call'.path, env)
               ELSE IF Kind(call'.path, env) = "dir" THEN "EISDIR" ELSE "0"
     /\ FifoTest =>
          /\ call'.returned
          /\ call'.result =
               IF StatErrno(call'.path, env) # "ok"
               THEN StatErrno(call'.path, env)
               ELSE IF Kind(call'.path, env) = "fifo" THEN "ESPIPE" ELSE "0"
     /\ DirectoryTest \/ FifoTest =>
          UNCHANGED <<progfile_dir, appbundle_dir,
                      running_in_build_directory_flag, aborted>>]_vars

C21_Witness ==
  /\ call.op = "test_for_directory"
  /\ call.path = F_hidden
  /\ call.result = "EACCES"
  /\ progfile_dir = P_usr_bin

\* The last operation was a call of g_strlcat on two strings.
StrlcatCall ==
  call.op = "g_strlcat" /\ call.returned /\ call.path # NULL /\ call.path2 # NULL

Min(a, b) == IF a <= b THEN a ELSE b

\* The buffer does not hold the whole of the original dest followed by src
\* with its nul.
Truncated ==
  call.buffer # call.path \o call.path2 \/ Len(call.buffer) >= call.dest_size

\* C26: g_strlcat(dest, src, dest_size) returns MIN(dest_size, strlen(dest))
\* + strlen(src), never writes at or beyond dest + dest_size, leaves dest
\* nul-terminated whenever dest_size > 0 and the original dest had a nul
\* within its first dest_size characters, and returns a value >= dest_size
\* exactly when truncation occurred.
C26_Strlcat ==
  StrlcatCall =>
    /\ call.size = Min(call.dest_size, Len(call.path)) + Len(call.path2)
    /\ \A offset \in call.written : offset < call.dest_size
    /\ call.dest_size > 0 /\ Len(call.path) < call.dest_size =>
         Len(call.buffer) < call.dest_size /\ Len(call.buffer) \in call.written
    /\ call.size >= call.dest_size <=> Truncated

C26_Witness ==
  /\ StrlcatCall
  /\ call.path = <<"d">>
  /\ call.path2 = N_foo
  /\ call.dest_size = 3
  /\ call.buffer = <<"d", "f">>
  /\ call.size = 4

(***************************************************************************)
(* Further properties of init_progfile_dir (under Spec)                    *)
(***************************************************************************)

\* The candidate of the step's call contains a '/' but does not start
\* with one.
RelativeStep ==
  /\ InitStep
  /\ Posix
  /\ HasSlash(call'.execname)
  /\ At(call'.execname, 0) # "/"

\* C22: a candidate that contains '/' but does not start with it is
\* resolved as current directory + "/" + candidate before it is split; if
\* pathconf() returns -1 or getcwd() returns NULL the call returns the
\* "pathconf failed" or the "getcwd failed" message and stores no
\* directory.
C22_RelativeResolved ==
  [][RelativeStep =>
       /\ env.cwd_status = "ok" =>
            /\ call'.prog_pathname = Curdir \o <<"/">> \o call'.execname
            /\ call'.ret = NULL
            /\ progfile_dir' =
                 Prefix(call'.prog_pathname,
                        strrchr(call'.prog_pathname, "/"))
       /\ env.cwd_status = "pathconf" =>
            call'.ret = Msg_pathconf /\ progfile_dir' = progfile_dir
       /\ env.cwd_status = "getcwd" =>
            call'.ret = Msg_getcwd /\ progfile_dir' = progfile_dir]_vars

\* A relative argv[0] was given where getcwd() fails, after a directory
\* had been stored.
C22_Witness ==
  /\ InitReturned
  /\ Posix
  /\ call.execname = P_bin_app
  /\ env.cwd_status = "getcwd"
  /\ call.ret = Msg_getcwd
  /\ progfile_dir # NULL

\* C23: the path heuristic sets the build-directory flag only when the
\* last component of the executable's directory is exactly "run" and
\* CMakeCache.txt exists in the directory containing "run"; when the marker
\* does not exist the flag is left at its previous value.
C23_MarkerRequired ==
  [][(InitStep /\ Posix /\ call'.ret = NULL) =>
       LET dir == progfile_dir'
           dir_end == strrchr(dir, "/")
           marker == Prefix(dir, dir_end) \o S_CMakeCache
       IN /\ running_in_build_directory_flag' # EnvOverride(env, State) =>
               /\ dir_end # NoPtr
               /\ Suffix(dir, dir_end) = S_run
               /\ Kind(marker, env) # "none"
          /\ (dir_end # NoPtr /\ Kind(marker, env) = "none") =>
               running_in_build_directory_flag' = EnvOverride(env, State)]_vars

\* C24: on UN*X the "No / found" message is never returned: every path
\* the absolutizing step produces contains a '/'.
C24_AlwaysSlash ==
  (InitReturned /\ Posix) =>
     /\ call.ret # NULL => call.ret[1] # Msg_no_slash(<< >>)[1]
     /\ call.prog_pathname # NULL => HasSlash(call.prog_pathname)

\* A bare name was found through a relative PATH entry.
C24_Witness ==
  /\ BareSearch
  /\ call.execname = P_app
  /\ call.prog_pathname = P_rs_app
  /\ call.ret = NULL

\* dir has, at the offset p > 0, a component that is exactly "Contents",
\* and bundle is the directory containing it.
ContentsAt(dir, p, bundle) ==
  /\ p > 0
  /\ p + Len(S_Contents) <= Len(dir)
  /\ SubSeq(dir, p + 1, p + Len(S_Contents)) = S_Contents
  /\ At(dir, p + Len(S_Contents)) \in {NUL, "/"}
  /\ bundle = Prefix(dir, p)

\* C25: appbundle_dir is set only if the resolved executable directory
\* contains a component exactly equal to "Contents" that is not the first
\* component, and is then the directory containing that component;
\* otherwise it stays unset.
C25_ContentsComponent ==
  [][(InitStep /\ Posix /\ appbundle_dir' \notin {appbundle_dir, Garbage}) =>
       \E p \in 0..Len(progfile_dir') :
         ContentsAt(progfile_dir', p, appbundle_dir')]_vars

\* The directory the bundle scan of the last call was given: the program's
\* pathname without its last component.
ScannedDir ==
  StripLastComponent(call.prog_pathname, strrchr(call.prog_pathname, "/"))

\* The last operation was a call of init_progfile_dir that reached the
\* bundle scan.
BundleScanned ==
  /\ call.op = "init_progfile_dir"
  /\ env.platform = "apple"
  /\ ~started_with_special_privs(env)
  /\ call.prog_pathname # NULL
  /\ HasSlash(call.prog_pathname)
  /\ HasSlash(ScannedDir)

\* C27: the bundle scan terminates for every resolved path, one built from
\* a relative PATH entry included, and its cursor never moves before the
\* first character of the path.
C27_ScanStaysInside ==
  BundleScanned =>
    /\ BundleScan(ScannedDir, Len(ScannedDir), Len(ScannedDir)).kind
         # "undefined"
    /\ call.returned
    /\ ~aborted

\* C28: after every successful call on UN*X, get_progfile_dir() is a
\* non-empty string that begins with '/'.
C28_AbsoluteDirectory ==
  /\ (InitReturned /\ Posix /\ call.ret = NULL) =>
       progfile_dir # << >> /\ At(progfile_dir, 0) = "/"
  /\ (Posix /\ call.op = "get_progfile_dir" /\ call.ret # NULL) =>
       call.ret # << >> /\ At(call.ret, 0) = "/"

\* C29 as stated: a call of init_progfile_dir that returns an error leaves
\* progfile_dir, the build-directory flag and appbundle_dir unchanged.
C29_AsStated ==
  [][(InitStep /\ call'.ret # NULL) =>
       /\ progfile_dir' = progfile_dir
       /\ appbundle_dir' = appbundle_dir
       /\ running_in_build_directory_flag' =
            running_in_build_directory_flag]_vars

\* C29, amended: a call of init_progfile_dir that returns an error leaves
\* progfile_dir and appbundle_dir unchanged, and leaves the build-directory
\* flag unchanged except that on UN*X the flag is TRUE afterwards when
\* WIRESHARK_RUN_FROM_BUILD_DIRECTORY is set and the process was not
\* started with special privileges.
C29_FailureKeepsDirectories ==
  [][(InitStep /\ call'.ret # NULL) =>
       /\ progfile_dir' = progfile_dir
       /\ appbundle_dir' = appbundle_dir
       /\ running_in_build_directory_flag' =
            IF Posix /\ env.build_env /\ ~started_with_special_privs(env)
            THEN TRUE ELSE running_in_build_directory_flag]_vars

\* A first call failed with the override set, and the flag is up.
C29_Witness ==
  /\ InitReturned
  /\ call.ret = Msg_PATH_not_set
  /\ env.build_env
  /\ ~started_with_special_privs(env)
  /\ progfile_dir = NULL
  /\ running_in_build_directory_flag

\* C30: the PATH search loop terminates for every PATH value, with empty
\* entries, consecutive colons or a trailing colon; each iteration advances
\* by at least one character, and at most one candidate is tested per
\* colon-delimited entry.
C30_PathLoop ==
  (Posix /\ env.PATH # NULL) =>
    /\ \A path_start \in 0..(Len(env.PATH) - 1) :
         LET next == PathAdvance(env.PATH, PathEnd(env.PATH, path_start))
         IN next > path_start /\ next <= Len(env.PATH)
    /\ BareSearch =>
         /\ call.returned
         /\ Len(call.tested) <= Cardinality(EntryStarts(env.PATH))

\* A search went through a PATH with an empty entry and a trailing colon
\* without a match.
C30_Witness ==
  /\ BareSearch
  /\ env.PATH = PATH_rs_x
  /\ call.ret = Msg_not_found(call.execname, PATH_rs_x)
  /\ Len(call.tested) = 3

====
